---- MODULE Spec2Model ----
(***************************************************************************)
(* Model of the train-ticket search bot: the per-user search slots kept in *)
(* context.user_data, the TaskManager registry, the search worker          *)
(* (start_ticket_checking / monitor_ticket_availability) and the message   *)
(* handlers enter_ticket_data and cancel.                                  *)
(*                                                                         *)
(* Every asyncio task is a coroutine that runs from one await to the next  *)
(* without interruption; an action of the model is one such run.           *)
(***************************************************************************)
EXTENDS Integers, Sequences, FiniteSets, TLC

\* settings.max_concurrent_searches
max_concurrent_searches == 3

\* settings.retry_attempts
retry_attempts == 8

\* Bounds of the model.
MaxTasks == 4        \* search tasks ever created, specification Spec
MaxConcTasks == 5    \* search tasks ever created, specification ConcSpec
MaxWorkerTasks == 1  \* search tasks ever created, WorkerSpec and LiveSpec
MaxStopTasks == 2    \* search tasks ever created, specification StopSpec
MaxRegistryTasks == 2 \* searches submitted around a cancel_all_tasks call
MaxRounds == 3       \* rounds of the background poller
MaxInFlight == 2     \* handler invocations that may be in flight at once
MaxSuccess == 2      \* success notifications one worker may send
MaxNotifyFail == 1   \* send_message calls that raise

VARIABLES
    tasks,          \* task id -> the asyncio.Task running start_ticket_checking
    ntasks,         \* number of tasks created so far (ids 1..ntasks)
    active_tasks,   \* TaskManager.active_tasks: chat_id -> sequence of task ids
    user_data,      \* context.user_data: chat_id -> slot i -> task id, 0: no key
    hnd,            \* coroutine invocations in progress (enter_ticket_data,
                    \* cancel, TaskManager.cancel_all_tasks)
    nfail,          \* send_message calls that have raised
    fetch,          \* one call of make_get_request: its HTTP attempts so far
    poller,         \* the task running TicketBot.check_ticket_availability
    env             \* the environment of the specification: how updates are
                    \* dispatched, how many searches are submitted, what the
                    \* polled site answers, which dates and times are asked;
                    \* whether the application has stopped, and the users the
                    \* shutdown hook has sent a notification

vars == <<tasks, ntasks, active_tasks, user_data, hnd, nfail, env, fetch, poller>>

Users == {1}
\* Task ids: as many as the largest specification creates.
Tasks ==
    LET most == IF MaxConcTasks > MaxTasks THEN MaxConcTasks ELSE MaxTasks
    IN  1..(IF MaxStopTasks > most THEN MaxStopTasks ELSE most)
Slots == 1..max_concurrent_searches
Handlers == 1..MaxInFlight

-----------------------------------------------------------------------------
(* The search worker.                                                      *)

NoteKinds ==
    {"format", "past", "route", "notrain", "started", "success", "wrong",
     "server", "generic"}

\* A task that asyncio.create_task has not created yet.
NoTask ==
    [pc |-> "none", why |-> "none", res |-> "none", cancel |-> FALSE,
     ran |-> FALSE, admitted |-> FALSE, notes |-> [k \in NoteKinds |-> 0]]

\* asyncio.create_task(start_ticket_checking(...)): scheduled, not yet run.
create_task == [NoTask EXCEPT !.pc = "new"]

done(tk) == tk.pc = "done"

\* bot.send_message(...) is called with a text of the given kind.
send_message(tk, kind) == [tk EXCEPT !.notes[kind] = @ + 1]

\* The coroutine returns, raises, or is ended by CancelledError.
Finish(tk, res) == [tk EXCEPT !.pc = "done", !.res = res]

\* The except Exception clause of start_ticket_checking.
except_Exception(tk) == [send_message(tk, "generic") EXCEPT !.pc = "gen_note"]

\* The pages the site can answer with: an error region, a departure-time
\* label equal to the requested time, the enclosing schedule row, and the
\* row's data-ticket_selling_allowed attribute.
Allowed == {"true", "True", "false", "none"}
Pages ==
    {p \in [err : BOOLEAN, time : BOOLEAN, row : BOOLEAN, allowed : Allowed] :
        /\ ~p.time => ~p.row
        /\ ~p.row => p.allowed = "none"}

\* What make_get_request and the reading of the body can give.
Responses ==
    {[kind |-> "neterr", status |-> 0, page |-> [err |-> FALSE, time |-> FALSE, row |-> FALSE, allowed |-> "none"]],
     [kind |-> "exc", status |-> 200, page |-> [err |-> FALSE, time |-> FALSE, row |-> FALSE, allowed |-> "none"]],
     [kind |-> "resp", status |-> 500, page |-> [err |-> FALSE, time |-> FALSE, row |-> FALSE, allowed |-> "none"]]}
    \cup {[kind |-> "resp", status |-> 200, page |-> p] : p \in Pages}

\* str.lower() on the attribute values of the model.
lower(s) == IF s = "True" THEN "true" ELSE s

\* A response with status 200 whose matching row is marked sale-allowed.
GoodResponse(r) ==
    /\ r.kind = "resp" /\ r.status = 200
    /\ r.page.time /\ r.page.row /\ lower(r.page.allowed) = "true"

\* The Europe/Minsk clock when validate_time_input runs: the day and the
\* time of day (days and times are counted from 0).
current_date == 1
current_time == 1

\* The date and time strings of a request: whether they parse
\* (time.fromisoformat, strptime), the length of the time string
\* ("07:44" has 5 characters, "07:44:00" has 8), and the day and time of
\* day they denote.
TimeLengths == {5, 8}
TimeInputs ==
    {[parses |-> FALSE, len |-> 5, date |-> 0, time |-> 0]}
        \cup [parses : {TRUE}, len : TimeLengths, date : 0..2, time : 0..2]

\* validate_time_input with a time equal to the current time rejected.
validate_time_input_strictly_later(tk, tv) ==
    IF ~tv.parses
    THEN [send_message(tk, "format") EXCEPT !.pc = "last_note", !.why = "time_format"]
    ELSE IF \/ tv.len # 5
            \/ tv.date < current_date
            \/ (tv.date = current_date /\ tv.time <= current_time)
    THEN [send_message(tk, "past") EXCEPT !.pc = "last_note", !.why = "time_past"]
    ELSE [tk EXCEPT !.pc = "init_fetch"]

\* validate_time_input
validate_time_input(tk, tv) ==
    IF ~tv.parses
    THEN [send_message(tk, "format") EXCEPT !.pc = "last_note", !.why = "time_format"]
    ELSE IF \/ tv.len # 5
            \/ tv.date < current_date
            \/ (tv.date = current_date /\ tv.time < current_time)
    THEN [send_message(tk, "past") EXCEPT !.pc = "last_note", !.why = "time_past"]
    ELSE [tk EXCEPT !.pc = "init_fetch"]

\* The requests a specification submits: every date and time of the model,
\* or one of each kind (unparsable, yesterday, tomorrow), or only requests
\* for yesterday.
Unparsable == [parses |-> FALSE, len |-> 5, date |-> 0, time |-> 0]
Yesterday == [parses |-> TRUE, len |-> 5, date |-> current_date - 1, time |-> current_time]
Tomorrow == [parses |-> TRUE, len |-> 5, date |-> current_date + 1, time |-> current_time]
Requests(times) ==
    CASE times = "all" -> TimeInputs
      [] times = "typical" -> {Unparsable, Yesterday, Tomorrow}
      [] times = "past" -> {Yesterday}

\* validate_rzd_response that does not look for an error region.
validate_rzd_response_no_error_check(tk, page) ==
    IF ~page.time
    THEN [send_message(tk, "notrain") EXCEPT !.pc = "last_note", !.why = "train_not_found"]
    ELSE [send_message(tk, "started") EXCEPT !.pc = "start_note"]

\* validate_rzd_response; when it returns True start_ticket_checking sends
\* the "search started" confirmation.
validate_rzd_response(tk, page) ==
    IF page.err
    THEN [send_message(tk, "route") EXCEPT !.pc = "last_note", !.why = "page_error"]
    ELSE IF ~page.time
    THEN [send_message(tk, "notrain") EXCEPT !.pc = "last_note", !.why = "train_not_found"]
    ELSE [send_message(tk, "started") EXCEPT !.pc = "start_note"]

\* start_ticket_checking, from its first step to the initial request.
start_ticket_checking(tk, tv) ==
    validate_time_input([tk EXCEPT !.ran = TRUE], tv)

\* initial_check with a network error treated as it would be while
\* monitoring: the worker goes on polling.
initial_check_retrying(tk, r) ==
    IF r.kind = "neterr"
    THEN [send_message(tk, "server") EXCEPT !.pc = "mon_sleep", !.why = "init_neterr"]
    ELSE IF r.kind = "exc" \/ r.status # 200
    THEN [except_Exception(tk) EXCEPT !.why = "init_error"]
    ELSE validate_rzd_response(tk, r.page)

\* initial_check that enters monitoring without the confirmation.
initial_check_unconfirmed(tk, r) ==
    IF r.kind = "neterr"
    THEN [send_message(tk, "server") EXCEPT !.pc = "last_note", !.why = "init_neterr"]
    ELSE IF r.kind = "exc" \/ r.status # 200
    THEN [except_Exception(tk) EXCEPT !.why = "init_error"]
    ELSE IF r.page.err \/ ~r.page.time
    THEN validate_rzd_response(tk, r.page)
    ELSE [tk EXCEPT !.pc = "mon_fetch"]

\* start_ticket_checking, when the initial make_get_request has answered.
initial_check(tk, r) ==
    IF r.kind = "neterr"
    THEN [send_message(tk, "server") EXCEPT !.pc = "last_note", !.why = "init_neterr"]
    ELSE IF r.kind = "exc" \/ r.status # 200
    THEN [except_Exception(tk) EXCEPT !.why = "init_error"]
    ELSE validate_rzd_response(tk, r.page)

\* ticket_available without .lower()
ticket_available_exact(page) == page.allowed = "true"

\* train_block.get("data-ticket_selling_allowed", "").lower() == "true"
ticket_available(page) == lower(page.allowed) = "true"

\* monitor_ticket_availability that ends the search on a status other than
\* 200, as start_ticket_checking does.
monitor_ticket_availability_status_final(tk, r) ==
    IF r.kind = "neterr"
    THEN [send_message(tk, "server") EXCEPT !.pc = "last_note", !.why = "mon_neterr"]
    ELSE IF r.kind = "exc"
    THEN [tk EXCEPT !.pc = "mon_fetch", !.why = "mon_error"]
    ELSE IF r.status # 200
    THEN [except_Exception(tk) EXCEPT !.why = "mon_error"]
    ELSE IF ~r.page.time \/ ~r.page.row
    THEN [send_message(tk, "wrong") EXCEPT !.pc = "last_note", !.why = "mon_wrong"]
    ELSE IF ticket_available(r.page)
    THEN [send_message(tk, "success") EXCEPT !.pc = "succ_note"]
    ELSE [tk EXCEPT !.pc = "mon_sleep"]

\* monitor_ticket_availability that ends the search on an unexpected
\* exception, as start_ticket_checking does.
monitor_ticket_availability_exception_final(tk, r) ==
    IF r.kind = "neterr"
    THEN [send_message(tk, "server") EXCEPT !.pc = "last_note", !.why = "mon_neterr"]
    ELSE IF r.kind = "exc"
    THEN [except_Exception(tk) EXCEPT !.why = "mon_error"]
    ELSE IF r.status # 200
    THEN [tk EXCEPT !.pc = "mon_sleep"]
    ELSE IF ~r.page.time \/ ~r.page.row
    THEN [send_message(tk, "wrong") EXCEPT !.pc = "last_note", !.why = "mon_wrong"]
    ELSE IF ticket_available(r.page)
    THEN [send_message(tk, "success") EXCEPT !.pc = "succ_note"]
    ELSE [tk EXCEPT !.pc = "mon_sleep"]

\* One pass of the loop of monitor_ticket_availability, when its
\* make_get_request has answered.
monitor_ticket_availability(tk, r) ==
    IF r.kind = "neterr"
    THEN [send_message(tk, "server") EXCEPT !.pc = "last_note", !.why = "mon_neterr"]
    ELSE IF r.kind = "exc"
    THEN [tk EXCEPT !.pc = "mon_fetch", !.why = "mon_error"]
    ELSE IF r.status # 200
    THEN [tk EXCEPT !.pc = "mon_sleep"]
    ELSE IF ~r.page.time \/ ~r.page.row
    THEN [send_message(tk, "wrong") EXCEPT !.pc = "last_note", !.why = "mon_wrong"]
    ELSE IF ticket_available(r.page)
    THEN [send_message(tk, "success") EXCEPT !.pc = "succ_note"]
    ELSE [tk EXCEPT !.pc = "mon_sleep"]

\* The worker resumes after an awaited bot.send_message returned.
after_send(tk) ==
    CASE tk.pc = "start_note" -> [tk EXCEPT !.pc = "mon_fetch"]
      [] tk.pc = "succ_note" -> [tk EXCEPT !.pc = "mon_sleep"]
      [] OTHER -> Finish(tk, "returned")

\* The worker resumes after an awaited bot.send_message raised.
after_send_raised(tk) ==
    CASE tk.pc = "gen_note" -> Finish(tk, "raised")
      [] tk.pc = "last_note" /\ tk.why = "init_neterr" -> Finish(tk, "raised")
      [] tk.pc = "last_note" /\ tk.why = "mon_wrong" ->
            [tk EXCEPT !.pc = "mon_fetch", !.why = "mon_error"]
      [] tk.pc = "succ_note" -> [tk EXCEPT !.pc = "mon_fetch", !.why = "mon_error"]
      [] OTHER -> except_Exception(tk)

NotePcs == {"last_note", "gen_note", "start_note", "succ_note"}
MonitoringPcs == {"mon_fetch", "mon_sleep", "succ_note"}

\* A response with status 200 whose matching row is not on sale.
SteadyResponse(r) ==
    /\ r.kind = "resp" /\ r.status = 200
    /\ r.page.time /\ r.page.row /\ ~r.page.err /\ r.page.allowed = "false"

\* The responses the polled site gives now.
Upstream ==
    CASE env.upstream = "good" -> {r \in Responses : GoodResponse(r)}
      [] env.upstream = "steady" -> {r \in Responses : SteadyResponse(r)}
      [] OTHER -> Responses

\* First step of a task: the coroutine starts.
WorkerStart(t) ==
    /\ tasks[t].pc = "new" /\ ~tasks[t].cancel
    /\ \E tv \in Requests(env.times) :
          tasks' = [tasks EXCEPT ![t] = start_ticket_checking(@, tv)]
    /\ UNCHANGED <<ntasks, active_tasks, user_data, hnd, nfail, env, fetch, poller>>

WorkerInitialCheck(t) ==
    /\ tasks[t].pc = "init_fetch" /\ ~tasks[t].cancel
    /\ \E r \in Upstream :
          tasks' = [tasks EXCEPT ![t] = initial_check(@, r)]
    /\ UNCHANGED <<ntasks, active_tasks, user_data, hnd, nfail, env, fetch, poller>>

WorkerMonitor(t) ==
    /\ tasks[t].pc = "mon_fetch" /\ ~tasks[t].cancel
    /\ \E r \in Upstream :
          /\ GoodResponse(r) => tasks[t].notes["success"] < MaxSuccess
          /\ tasks' = [tasks EXCEPT ![t] = monitor_ticket_availability(@, r)]
    /\ UNCHANGED <<ntasks, active_tasks, user_data, hnd, nfail, env, fetch, poller>>

\* asyncio.sleep(calculate_retry_time()) is over.
WorkerWake(t) ==
    /\ tasks[t].pc = "mon_sleep" /\ ~tasks[t].cancel
    /\ tasks' = [tasks EXCEPT ![t].pc = "mon_fetch"]
    /\ UNCHANGED <<ntasks, active_tasks, user_data, hnd, nfail, env, fetch, poller>>

WorkerSent(t) ==
    /\ tasks[t].pc \in NotePcs /\ ~tasks[t].cancel
    /\ tasks' = [tasks EXCEPT ![t] = after_send(@)]
    /\ UNCHANGED <<ntasks, active_tasks, user_data, hnd, nfail, env, fetch, poller>>

WorkerSendRaised(t) ==
    /\ tasks[t].pc \in NotePcs /\ ~tasks[t].cancel
    /\ nfail < MaxNotifyFail
    /\ nfail' = nfail + 1
    /\ tasks' = [tasks EXCEPT ![t] = after_send_raised(@)]
    /\ UNCHANGED <<ntasks, active_tasks, user_data, hnd, env, fetch, poller>>

\* WorkerCancelled with the CancelledError of asyncio.sleep caught by the
\* loop of monitor_ticket_availability.
WorkerCancelled_caught_in_sleep(t) ==
    /\ tasks[t].pc \notin {"none", "done"} /\ tasks[t].cancel
    /\ tasks' = [tasks EXCEPT ![t] =
                    IF @.pc = "mon_sleep"
                    THEN [@ EXCEPT !.pc = "mon_fetch", !.cancel = FALSE]
                    ELSE Finish(@, "cancelled")]
    /\ UNCHANGED <<ntasks, active_tasks, user_data, hnd, nfail, env, fetch, poller>>

\* task.cancel() was called: the next step of the task raises CancelledError
\* at its await (or before its first statement), which no clause catches.
WorkerCancelled(t) ==
    /\ tasks[t].pc \notin {"none", "done"} /\ tasks[t].cancel
    /\ tasks' = [tasks EXCEPT ![t] = Finish(@, "cancelled")]
    /\ UNCHANGED <<ntasks, active_tasks, user_data, hnd, nfail, env, fetch, poller>>

WorkerStep(t) ==
    \/ WorkerStart(t)
    \/ WorkerInitialCheck(t)
    \/ WorkerMonitor(t)
    \/ WorkerWake(t)
    \/ WorkerSent(t)
    \/ WorkerSendRaised(t)
    \/ WorkerCancelled(t)

-----------------------------------------------------------------------------
(* The fetcher: make_get_request under its tenacity retry decorator.       *)

\* What one session.get can give: a response with its status, or an
\* exception (aiohttp.ClientError, asyncio.TimeoutError, any other).
Statuses == {200, 404, 500}
AttemptOutcomes ==
    {[kind |-> "resp", status |-> s] : s \in Statuses}
        \cup {[kind |-> k, status |-> 0] : k \in {"ClientError", "TimeoutError", "ValueError"}}

\* No call of make_get_request is in progress.
NoOutcome == [kind |-> "none", status |-> 0]
NoFetch == [pc |-> "idle", attempts |-> <<>>, delay |-> 0, out |-> NoOutcome]

\* retry_if_exception_type that retries every exception.
retry_if_exception_type_any(o) == o.kind # "resp"

\* retry=retry_if_exception_type((aiohttp.ClientError, asyncio.TimeoutError))
retry_if_exception_type(o) == o.kind \in {"ClientError", "TimeoutError"}

\* stop_after_attempt that allows one attempt more.
stop_after_attempt_one_more(attempt_number) == attempt_number > retry_attempts

\* stop=stop_after_attempt(settings.retry_attempts)
stop_after_attempt(attempt_number) == attempt_number >= retry_attempts

\* wait=wait_exponential(multiplier=1, min=1, max=3)
wait_exponential(attempt_number) ==
    LET result == 2 ^ (attempt_number - 1)
        capped == IF result < 3 THEN result ELSE 3
    IN  IF capped > 1 THEN capped ELSE 1

\* One attempt of make_get_request has ended with outcome o: the response is
\* returned, or the exception is raised to the caller, or the call waits
\* and tries again.
make_get_request(f, o) ==
    LET attempts == Append(f.attempts, o)
    IN  IF o.kind = "resp"
        THEN [f EXCEPT !.pc = "returned", !.attempts = attempts, !.out = o]
        ELSE IF ~retry_if_exception_type(o) \/ stop_after_attempt(Len(attempts))
        THEN [f EXCEPT !.pc = "raised", !.attempts = attempts, !.out = o]
        ELSE [f EXCEPT !.pc = "wait", !.attempts = attempts,
                       !.delay = wait_exponential(Len(attempts))]

\* A caller awaits make_get_request(url, session).
FetchCall ==
    /\ fetch.pc = "idle"
    /\ fetch' = [NoFetch EXCEPT !.pc = "attempt"]
    /\ UNCHANGED <<tasks, ntasks, active_tasks, user_data, hnd, nfail, env, poller>>

\* session.get answers or fails.
FetchAttempt ==
    /\ fetch.pc = "attempt"
    /\ \E o \in AttemptOutcomes : fetch' = make_get_request(fetch, o)
    /\ UNCHANGED <<tasks, ntasks, active_tasks, user_data, hnd, nfail, env, poller>>

\* The wait before the next attempt is over.
FetchWake ==
    /\ fetch.pc = "wait"
    /\ fetch' = [fetch EXCEPT !.pc = "attempt", !.delay = 0]
    /\ UNCHANGED <<tasks, ntasks, active_tasks, user_data, hnd, nfail, env, poller>>

\* The caller has the response or the exception.
FetchDone ==
    /\ fetch.pc \in {"returned", "raised"}
    /\ fetch' = NoFetch
    /\ UNCHANGED <<tasks, ntasks, active_tasks, user_data, hnd, nfail, env, poller>>

-----------------------------------------------------------------------------
(* The background poller: TicketBot.check_ticket_availability.             *)

\* The poller task: where it is, the rounds it has begun, and what the last
\* round logged ("none", "retries": the first except clause, "error": the
\* second, "unhandled": an exception that left the coroutine).
NoPoller == [pc |-> "none", rounds |-> 0, log |-> "none"]

\* What get_active_requests gives: no row, some rows, or an exception of
\* the database driver.
ReadOutcomes == {"empty", "rows", "raised"}

\* What handling a fetched page gives: the body of the loop runs to its
\* sleep, or a repository call or a send_message call in it raises.
PageOutcomes == {"handled", "repo_raised", "send_raised"}

\* The head of a round: the set of requests is built from
\* get_active_requests(), outside the try block.
read_requests(p, o) ==
    CASE o = "raised" -> [p EXCEPT !.pc = "done", !.log = "unhandled"]
      [] o = "empty" -> [p EXCEPT !.pc = "sleep", !.log = "none"]
      [] OTHER -> [p EXCEPT !.pc = "call", !.log = "none"]

\* The try block of a round, when make_get_request has given f: the except
\* clauses log and the while loop begins the next round; a round that ran
\* to its end sleeps first.
check_round(p, f, o) ==
    LET next == [p EXCEPT !.pc = "read", !.rounds = @ + 1]
    IN  IF f.pc = "raised"
        THEN [next EXCEPT !.log = IF retry_if_exception_type(f.out) THEN "retries" ELSE "error"]
        ELSE IF f.out.status # 200 \/ o # "handled"
        THEN [next EXCEPT !.log = "error"]
        ELSE [p EXCEPT !.pc = "sleep"]

\* background_task: asyncio.create_task(check_ticket_availability(...)).
PollerStart ==
    /\ poller.pc = "none"
    /\ poller' = [poller EXCEPT !.pc = "read", !.rounds = 1]
    /\ UNCHANGED <<tasks, ntasks, active_tasks, user_data, hnd, nfail, env, fetch>>

\* A round begins.
PollerRead ==
    /\ poller.pc = "read" /\ poller.rounds <= MaxRounds
    /\ \E o \in ReadOutcomes : poller' = read_requests(poller, o)
    /\ UNCHANGED <<tasks, ntasks, active_tasks, user_data, hnd, nfail, env, fetch>>

\* The poller awaits make_get_request for a request of the round.
PollerFetch ==
    /\ poller.pc = "call" /\ fetch.pc = "idle"
    /\ poller' = [poller EXCEPT !.pc = "fetch"]
    /\ fetch' = [NoFetch EXCEPT !.pc = "attempt"]
    /\ UNCHANGED <<tasks, ntasks, active_tasks, user_data, hnd, nfail, env>>

\* make_get_request has returned or raised, and the rest of the try block
\* runs.
PollerRound ==
    /\ poller.pc = "fetch" /\ fetch.pc \in {"returned", "raised"}
    /\ \E o \in PageOutcomes : poller' = check_round(poller, fetch, o)
    /\ fetch' = NoFetch
    /\ UNCHANGED <<tasks, ntasks, active_tasks, user_data, hnd, nfail, env>>

\* asyncio.sleep(calculate_retry_time()) at the end of a round is over.
PollerWake ==
    /\ poller.pc = "sleep"
    /\ poller' = [poller EXCEPT !.pc = "read", !.rounds = @ + 1]
    /\ UNCHANGED <<tasks, ntasks, active_tasks, user_data, hnd, nfail, env, fetch>>

-----------------------------------------------------------------------------
(* TaskManager and the per-user slots.                                     *)

\* add_task that registers nothing.
add_task_nothing(at, chat_id, t) == at

\* add_task that puts the new task first.
add_task_first(at, chat_id, t) == [at EXCEPT ![chat_id] = <<t>> \o @]

\* TaskManager.add_task
add_task(at, chat_id, t) == [at EXCEPT ![chat_id] = Append(@, t)]

\* The tasks registered for a chat, and those of them that are not done.
TasksOf(u) == {active_tasks[u][k] : k \in DOMAIN active_tasks[u]}
LiveTasks(u) == {t \in TasksOf(u) : ~done(tasks[t])}

\* TaskManager.get_active_users
get_active_users == {u \in Users : \E t \in TasksOf(u) : ~done(tasks[t])}

\* task.cancel() left out
task_cancel_missing(tk) == tk

\* task.cancel()
task_cancel(tk) == [tk EXCEPT !.cancel = TRUE]

Min(S) == CHOOSE x \in S : \A y \in S : x <= y

\* free_slot without the .done() test: only a missing key is free.
free_slot_missing_key_only(ud, tk) ==
    LET free == {i \in Slots : ud[i] = 0}
    IN  IF free = {} THEN 0 ELSE Min(free)

\* free_slot that falls back to the last slot when none is free.
free_slot_or_last(ud, tk) ==
    LET free == {i \in Slots : ud[i] = 0 \/ done(tk[ud[i]])}
    IN  IF free = {} THEN max_concurrent_searches ELSE Min(free)

\* free_slot that takes the highest free slot.
free_slot_highest(ud, tk) ==
    LET free == {i \in Slots : ud[i] = 0 \/ done(tk[ud[i]])}
    IN  IF free = {} THEN 0 ELSE CHOOSE x \in free : \A y \in free : x >= y

\* The loop of create_search_task: the first slot whose key is missing or
\* whose task is done; 0 when the loop ends without one.
free_slot(ud, tk) ==
    LET free == {i \in Slots : ud[i] = 0 \/ done(tk[ud[i]])}
    IN  IF free = {} THEN 0 ELSE Min(free)

\* cancel_loop that leaves the keys of done tasks in place.
cancel_loop_keeps_done(ud, tk, from) ==
    LET live == {j \in Slots : j >= from /\ ud[j] # 0 /\ ~done(tk[ud[j]])}
        stop == IF live = {} THEN 0 ELSE Min(live)
    IN  [stop |-> stop, ud |-> ud]

\* The loop of cancel from slot `from` on: keys of done tasks are popped; at
\* the first task that is not done the handler cancels it and awaits it
\* (stop is its slot; 0 when the loop ran to its end).
cancel_loop(ud, tk, from) ==
    LET live == {j \in Slots : j >= from /\ ud[j] # 0 /\ ~done(tk[ud[j]])}
        stop == IF live = {} THEN 0 ELSE Min(live)
        last == IF stop = 0 THEN max_concurrent_searches ELSE stop - 1
    IN  [stop |-> stop,
         ud |-> [j \in Slots |-> IF j >= from /\ j <= last THEN 0 ELSE ud[j]]]

\* cancelled_count without the except asyncio.CancelledError clause
cancelled_count_returned_only(count, tk) ==
    IF tk.res = "returned" THEN count + 1 ELSE count

\* cancelled_count after `await task` in cancel: the task returned or was
\* cancelled (counted), or raised another exception (logged, not counted).
cancelled_count(count, tk) ==
    IF tk.res \in {"returned", "cancelled"} THEN count + 1 ELSE count

-----------------------------------------------------------------------------
(* The handlers.                                                           *)

NoSlots == [i \in Slots |-> 0]
NoBefore == [live |-> {}, slots |-> NoSlots, active |-> <<>>]
Idle ==
    [kind |-> "idle", pc |-> "idle", user |-> 0, task |-> 0, i |-> 0,
     count |-> 0, reply |-> "none", before |-> NoBefore]

\* What the handler saw when it was called.
Before(u) ==
    [live |-> LiveTasks(u), slots |-> user_data[u], active |-> active_tasks[u]]

InFlight(h) == hnd[h].pc \in {"await_task", "reply", "returned"}

\* The application hands an update to a handler: one at a time unless
\* concurrent updates are switched on.
Dispatch(h) ==
    /\ ~env.stopped
    /\ ~InFlight(h)
    /\ \A g \in Handlers : g < h => InFlight(g)
    /\ env.concurrent \/ \A g \in Handlers : ~InFlight(g)

\* Numbers of whitespace-separated tokens of a message text (0: empty text).
TokenCounts == {0, 3, 4, 5}

\* create_search_task
create_search_task(h, u) ==
    LET t == ntasks + 1
        tk == [tasks EXCEPT ![t] = create_task]
        i == free_slot(user_data[u], tk)
        call == [Idle EXCEPT !.kind = "enter", !.user = u, !.task = t,
                             !.before = Before(u)]
    IN  /\ ntasks < env.limit
        /\ ntasks' = t
        /\ active_tasks' = add_task(active_tasks, u, t)
        /\ IF i # 0
           THEN /\ tasks' = [tk EXCEPT ![t].admitted = TRUE]
                /\ user_data' = [user_data EXCEPT ![u][i] = t]
                /\ hnd' = [hnd EXCEPT ![h] = Idle]
           ELSE /\ tasks' = [tk EXCEPT ![t] = task_cancel(@)]
                /\ user_data' = user_data
                /\ hnd' = [hnd EXCEPT ![h] = [call EXCEPT !.pc = "await_task"]]

\* enter_ticket_data that accepts four tokens or more.
enter_ticket_data_four_or_more(h, u, n) ==
    /\ Dispatch(h)
    /\ IF n >= 4
       THEN create_search_task(h, u)
       ELSE /\ hnd' = [hnd EXCEPT ![h] =
                  IF n = 0 THEN Idle
                  ELSE [Idle EXCEPT !.kind = "enter", !.user = u, !.pc = "reply",
                                    !.reply = "invalid"]]
            /\ UNCHANGED <<tasks, ntasks, active_tasks, user_data>>
    /\ UNCHANGED <<nfail, env, fetch, poller>>

\* enter_ticket_data is called with a text of n tokens.
enter_ticket_data(h, u, n) ==
    /\ Dispatch(h)
    /\ IF n = 4
       THEN create_search_task(h, u)
       ELSE /\ hnd' = [hnd EXCEPT ![h] =
                  IF n = 0 THEN Idle
                  ELSE [Idle EXCEPT !.kind = "enter", !.user = u, !.pc = "reply",
                                    !.reply = "invalid"]]
            /\ UNCHANGED <<tasks, ntasks, active_tasks, user_data>>
    /\ UNCHANGED <<nfail, env, fetch, poller>>

\* enter_rejected that returns without the limit message.
enter_rejected_silent(h) ==
    /\ hnd[h].kind = "enter" /\ hnd[h].pc = "await_task"
    /\ done(tasks[hnd[h].task])
    /\ hnd' = [hnd EXCEPT ![h] = Idle]
    /\ UNCHANGED <<tasks, ntasks, active_tasks, user_data, nfail, env, fetch, poller>>

\* create_search_task resumes from `await task`, returns False, and
\* enter_ticket_data sends the limit message.
enter_rejected(h) ==
    /\ hnd[h].kind = "enter" /\ hnd[h].pc = "await_task"
    /\ done(tasks[hnd[h].task])
    /\ hnd' = [hnd EXCEPT ![h].pc = "reply", ![h].reply = "limit"]
    /\ UNCHANGED <<tasks, ntasks, active_tasks, user_data, nfail, env, fetch, poller>>

\* Message texts the cancel handler can be called with.
CancelTexts == {"otmena", "Otmena", " OTMENA ", "cancel", ""}

\* strip_lower that takes every non-empty text for the keyword.
strip_lower_any_text(s) == "otmena"

\* update.message.text.strip().lower()
strip_lower(s) == IF s \in {"otmena", "Otmena", " OTMENA "} THEN "otmena" ELSE s

\* The loop of cancel runs from slot `from` until it awaits a task or ends.
cancel_run(h, rec, ud, from) ==
    LET u == rec.user
        run == cancel_loop(ud, tasks, from)
    IN  /\ user_data' = [user_data EXCEPT ![u] = run.ud]
        /\ IF run.stop = 0
           THEN /\ hnd' = [hnd EXCEPT ![h] = [rec EXCEPT !.pc = "reply", !.i = 0,
                                                     !.task = 0, !.reply = "cancelled"]]
                /\ tasks' = tasks
           ELSE /\ hnd' = [hnd EXCEPT ![h] = [rec EXCEPT !.pc = "await_task", !.i = run.stop,
                                                     !.task = ud[run.stop]]]
                /\ tasks' = [tasks EXCEPT ![ud[run.stop]] = task_cancel(@)]

\* cancel is called.
cancel(h, u, text) ==
    /\ Dispatch(h)
    /\ LET call == [Idle EXCEPT !.kind = "cancel", !.user = u,
                                 !.before.live = LiveTasks(u)]
       IN  IF text = "" \/ strip_lower(text) # "otmena"
           THEN /\ hnd' = [hnd EXCEPT ![h] = Idle]
                /\ UNCHANGED <<tasks, user_data>>
           ELSE IF user_data[u] = NoSlots
           THEN /\ hnd' = [hnd EXCEPT ![h] = [call EXCEPT !.pc = "reply", !.reply = "noactive"]]
                /\ UNCHANGED <<tasks, user_data>>
           ELSE cancel_run(h, call, user_data[u], 1)
    /\ UNCHANGED <<ntasks, active_tasks, nfail, env, fetch, poller>>

\* cancel resumes from `await task`: counts, pops the key, goes on.
cancel_resume(h) ==
    /\ hnd[h].kind = "cancel" /\ hnd[h].pc = "await_task"
    /\ done(tasks[hnd[h].task])
    /\ LET rec == [hnd[h] EXCEPT !.count = cancelled_count(@, tasks[hnd[h].task])]
           ud == [user_data[rec.user] EXCEPT ![rec.i] = 0]
       IN  cancel_run(h, rec, ud, rec.i + 1)
    /\ UNCHANGED <<ntasks, active_tasks, nfail, env, fetch, poller>>

\* The awaited reply of a handler is over and the handler returns.
handler_replied(h) ==
    /\ hnd[h].pc = "reply"
    /\ hnd' = [hnd EXCEPT ![h] = Idle]
    /\ UNCHANGED <<tasks, ntasks, active_tasks, user_data, nfail, env, fetch, poller>>

\* TicketBot.shutdown, the post_stop hook: the application has stopped
\* taking updates and its handlers have returned.  The hook writes a log
\* line: it cancels no task and sends no message.
shutdown ==
    /\ ~env.stopped
    /\ \A h \in Handlers : ~InFlight(h)
    /\ env' = [env EXCEPT !.stopped = TRUE]
    /\ UNCHANGED <<tasks, ntasks, active_tasks, user_data, hnd, nfail, fetch, poller>>

\* cancel_all_tasks that cancels the tasks without awaiting them.
cancel_all_loop_no_await(h, rec, from) ==
    LET at == active_tasks[rec.user]
        live == {k \in DOMAIN at : k >= from /\ ~done(tasks[at[k]])}
    IN  /\ hnd' = [hnd EXCEPT ![h] = [rec EXCEPT !.pc = "returned", !.i = 0, !.task = 0]]
        /\ tasks' = [t \in Tasks |->
                        IF \E k \in live : at[k] = t THEN task_cancel(tasks[t]) ELSE tasks[t]]

\* The loops of TaskManager.cancel_all_tasks from position `from` of the
\* list of a chat: done tasks are passed over; the first task that is not
\* done is cancelled and awaited; the call returns when the list ends.  (The
\* model has one chat, so the loop over active_tasks.values() has one pass.)
cancel_all_loop(h, rec, from) ==
    LET at == active_tasks[rec.user]
        live == {k \in DOMAIN at : k >= from /\ ~done(tasks[at[k]])}
    IN  IF live = {}
        THEN /\ hnd' = [hnd EXCEPT ![h] = [rec EXCEPT !.pc = "returned", !.i = 0, !.task = 0]]
             /\ tasks' = tasks
        ELSE /\ hnd' = [hnd EXCEPT ![h] = [rec EXCEPT !.pc = "await_task", !.i = Min(live),
                                                  !.task = at[Min(live)]]]
             /\ tasks' = [tasks EXCEPT ![at[Min(live)]] = task_cancel(@)]

\* A coroutine calls TaskManager.cancel_all_tasks().
cancel_all_tasks(h) ==
    /\ ~InFlight(h)
    /\ \A g \in Handlers : g < h => InFlight(g)
    /\ \E u \in Users :
          cancel_all_loop(h, [Idle EXCEPT !.kind = "cancel_all", !.user = u,
                                          !.before = Before(u)], 1)
    /\ UNCHANGED <<ntasks, active_tasks, user_data, nfail, env, fetch, poller>>

\* cancel_all_tasks resumes from `await task` and goes on with the list.
cancel_all_resume(h) ==
    /\ hnd[h].kind = "cancel_all" /\ hnd[h].pc = "await_task"
    /\ done(tasks[hnd[h].task])
    /\ cancel_all_loop(h, hnd[h], hnd[h].i + 1)
    /\ UNCHANGED <<ntasks, active_tasks, user_data, nfail, env, fetch, poller>>

\* The caller of cancel_all_tasks goes on after the call returned.
cancel_all_returned(h) ==
    /\ hnd[h].kind = "cancel_all" /\ hnd[h].pc = "returned"
    /\ hnd' = [hnd EXCEPT ![h] = Idle]
    /\ UNCHANGED <<tasks, ntasks, active_tasks, user_data, nfail, env, fetch, poller>>

-----------------------------------------------------------------------------
(* Specifications.                                                         *)

\* The environment of a specification; the application runs and no
\* shutdown notification has been sent.
Environment(concurrent, limit, upstream, times) ==
    [concurrent |-> concurrent, limit |-> limit, upstream |-> upstream,
     times |-> times, stopped |-> FALSE, farewell |-> {}]

InitState(e) ==
    /\ tasks = [t \in Tasks |-> NoTask]
    /\ ntasks = 0
    /\ active_tasks = [u \in Users |-> <<>>]
    /\ user_data = [u \in Users |-> NoSlots]
    /\ hnd = [h \in Handlers |-> Idle]
    /\ nfail = 0
    /\ env = e
    /\ fetch = NoFetch
    /\ poller = NoPoller

\* The slots and the registry.  The application built by TicketBot.start_bot
\* handles updates one at a time; the site is up and the ticket not on sale,
\* so a search ends by a date/time error or by cancellation.
Init ==
    InitState(Environment(FALSE, MaxTasks, "steady", "typical"))

Next ==
    \/ \E t \in Tasks : WorkerStep(t)
    \/ \E h \in Handlers, u \in Users, n \in TokenCounts : enter_ticket_data(h, u, n)
    \/ \E h \in Handlers : enter_rejected(h)
    \/ \E h \in Handlers, u \in Users, text \in CancelTexts : cancel(h, u, text)
    \/ \E h \in Handlers : cancel_resume(h)
    \/ \E h \in Handlers : handler_replied(h)

Spec == Init /\ [][Next]_vars

\* The search worker: few searches, any answer of the site.
InitWorker ==
    InitState(Environment(FALSE, MaxWorkerTasks, "any", "all"))

NextWorker ==
    \/ \E t \in Tasks : WorkerStep(t)
    \/ \E h \in Handlers, u \in Users : enter_ticket_data(h, u, 4)
    \/ \E h \in Handlers, u \in Users : cancel(h, u, "otmena")
    \/ \E h \in Handlers : cancel_resume(h)
    \/ \E h \in Handlers : handler_replied(h)

WorkerSpec == InitWorker /\ [][NextWorker]_vars

\* From some point on every request is answered with status 200 and a row
\* marked sale-allowed.
Stabilize ==
    /\ env.upstream = "any"
    /\ env' = [env EXCEPT !.upstream = "good"]
    /\ UNCHANGED <<tasks, ntasks, active_tasks, user_data, hnd, nfail, fetch, poller>>

NextLive == NextWorker \/ Stabilize

\* The event loop runs every task that is ready.
LiveSpec ==
    /\ InitWorker /\ [][NextLive]_vars
    /\ \A t \in Tasks : WF_vars(WorkerStep(t))

\* The slots and the registry when handlers interleave at their awaits
\* (concurrent updates).  Every search is for a moment in the past: its
\* worker sends the date/time error and returns, or is cancelled first.
InitConc ==
    InitState(Environment(TRUE, MaxConcTasks, "steady", "past"))

NextConc ==
    \/ \E t \in Tasks : WorkerStart(t) \/ WorkerSent(t) \/ WorkerCancelled(t)
    \/ \E h \in Handlers, u \in Users : enter_ticket_data(h, u, 4)
    \/ \E h \in Handlers : enter_rejected(h)
    \/ \E h \in Handlers, u \in Users : cancel(h, u, "otmena")
    \/ \E h \in Handlers : cancel_resume(h)
    \/ \E h \in Handlers : handler_replied(h)

ConcSpec == InitConc /\ [][NextConc]_vars

\* The application stops: searches are submitted and cancelled, the site is
\* up and the ticket not on sale, and at some point the shutdown hook runs.
\* The event loop may still run the workers for a while after it.
InitStop ==
    InitState(Environment(FALSE, MaxStopTasks, "steady", "typical"))

NextStop ==
    \/ \E t \in Tasks : WorkerStep(t)
    \/ \E h \in Handlers, u \in Users : enter_ticket_data(h, u, 4)
    \/ \E h \in Handlers, u \in Users : cancel(h, u, "otmena")
    \/ \E h \in Handlers : cancel_resume(h)
    \/ \E h \in Handlers : handler_replied(h)
    \/ shutdown

StopSpec == InitStop /\ [][NextStop]_vars

\* The background poller with its calls of make_get_request.
InitPoller == InitState(Environment(FALSE, 0, "any", "all"))

NextPoller ==
    \/ PollerStart
    \/ PollerRead
    \/ PollerFetch
    \/ FetchAttempt
    \/ FetchWake
    \/ PollerRound
    \/ PollerWake

PollerSpec == InitPoller /\ [][NextPoller]_vars

\* The registry: searches are submitted and run while some coroutine calls
\* TaskManager.cancel_all_tasks (nothing in the application does; the
\* method is there to be called).  Submissions may come while the call
\* awaits a task.
InitRegistry ==
    InitState(Environment(TRUE, MaxRegistryTasks, "steady", "typical"))

NextRegistry ==
    \/ \E t \in Tasks : WorkerStep(t)
    \/ \E h \in Handlers, u \in Users : enter_ticket_data(h, u, 4)
    \/ \E h \in Handlers : cancel_all_tasks(h)
    \/ \E h \in Handlers : cancel_all_resume(h)
    \/ \E h \in Handlers : cancel_all_returned(h)

RegistrySpec == InitRegistry /\ [][NextRegistry]_vars

\* The fetcher alone: calls of make_get_request, one after the other, with
\* every outcome of every attempt.
InitFetch == InitState(Environment(FALSE, 0, "any", "all"))

NextFetch == FetchCall \/ FetchAttempt \/ FetchWake \/ FetchDone

FetchSpec == InitFetch /\ [][NextFetch]_vars

-----------------------------------------------------------------------------
(* Properties.                                                             *)

LiveCount(u) == Cardinality(LiveTasks(u))
Created == 1..ntasks
Rejected(t) == t \in Created /\ ~tasks[t].admitted
Silent(tk) == \A k \in NoteKinds : tk.notes[k] = 0

\* create_search_task is called for u in this step.
Submitted(u) ==
    /\ ntasks' = ntasks + 1
    /\ Len(active_tasks'[u]) = Len(active_tasks[u]) + 1

\* create_search_task has returned False and the handler is sending the
\* limit message.
ReturnedFalse(h) ==
    hnd[h].kind = "enter" /\ hnd[h].pc = "reply" /\ hnd[h].reply = "limit"

\* cancel has run its loop and is sending the count of cancelled searches.
Reported(h) ==
    hnd[h].kind = "cancel" /\ hnd[h].pc = "reply" /\ hnd[h].reply = "cancelled"

\* The worker has entered monitor_ticket_availability.
Monitoring(tk) == tk.pc \in MonitoringPcs

\* C1: at every reachable state, the intermediate states of a rejected
\* submission included, a user has at most max_concurrent_searches live
\* (not done) search tasks.
C1_LiveWithinLimit ==
    \A u \in Users : LiveCount(u) <= max_concurrent_searches

\* C2: create_search_task stores the new task in a slot and returns True
\* if and only if, at the moment of the call, the user has fewer than
\* max_concurrent_searches live search tasks; otherwise it takes the
\* branch that cancels the task and returns False.
C2_AdmittedIffBelowLimit ==
    [][\A u \in Users : Submitted(u) =>
          /\ tasks'[ntasks'].admitted <=> LiveCount(u) < max_concurrent_searches
          /\ ~tasks'[ntasks'].admitted <=>
                \E h \in Handlers : hnd'[h].pc = "await_task" /\ hnd'[h].task = ntasks'
      ]_vars

C2_Witness ==
    \E t, s \in Created :
        /\ tasks[t].admitted /\ Rejected(s) /\ done(tasks[s])
        /\ \E h \in Handlers : ReturnedFalse(h)

\* C3: the task of a rejected submission never executes a step of
\* start_ticket_checking: it does not run, sends no notification, and ends
\* cancelled.
C3_RejectedNeverRuns ==
    \A t \in Created : Rejected(t) =>
        /\ ~tasks[t].ran
        /\ Silent(tasks[t])
        /\ tasks[t].pc \in {"new", "done"}
        /\ done(tasks[t]) => tasks[t].res = "cancelled"

C3_Witness ==
    \E t \in Created :
        /\ Rejected(t) /\ done(tasks[t])
        /\ Cardinality(LiveTasks(1)) = max_concurrent_searches

\* C4: after create_search_task has returned False, the user's slots, the
\* count of live searches and TaskManager.active_tasks equal what they were
\* before the call.
C4_RejectionConsumesNothing ==
    \A h \in Handlers : ReturnedFalse(h) =>
        /\ user_data[hnd[h].user] = hnd[h].before.slots
        /\ LiveCount(hnd[h].user) = Cardinality(hnd[h].before.live)
        /\ active_tasks[hnd[h].user] = hnd[h].before.active

\* The slots of u that create_search_task may fill: no key, or a done task.
FreeSlots(u) ==
    {i \in Slots : user_data[u][i] = 0 \/ done(tasks[user_data[u][i]])}

\* C5: submissions for one user that interleave never fill the same slot.
\* Each call of create_search_task takes one free slot, which is then no
\* longer free, and is admitted; with no free slot it is rejected and the
\* slots stay as they are.  So of two submissions that find one free slot,
\* one is admitted and the other rejected, and a slot that holds a live
\* task is never written.
C5_OneSlotOneAdmission ==
    [][\A u \in Users : Submitted(u) =>
          /\ FreeSlots(u) = {} =>
                /\ ~tasks'[ntasks'].admitted
                /\ user_data'[u] = user_data[u]
          /\ FreeSlots(u) # {} =>
                /\ tasks'[ntasks'].admitted
                /\ \E i \in FreeSlots(u) :
                      /\ user_data'[u] = [user_data[u] EXCEPT ![i] = ntasks']
                      /\ {j \in Slots : user_data'[u][j] = 0
                                          \/ done(tasks'[user_data'[u][j]])}
                            = FreeSlots(u) \ {i}
      ]_vars

\* A submission is awaiting its rejected task while a later submission of
\* the same user has been admitted.
C5_Witness ==
    \E h \in Handlers, t \in Created :
        /\ hnd[h].kind = "enter" /\ hnd[h].pc = "await_task"
        /\ t > hnd[h].task /\ tasks[t].admitted
        /\ hnd[h].user = 1 /\ t \in TasksOf(1)

\* C6, as claimed: cancel called for a user with k live searches reports
\* exactly k, and the user then has no live search task.
C6_ReportsEveryLiveSearch ==
    \A h \in Handlers : Reported(h) =>
        /\ hnd[h].count = Cardinality(hnd[h].before.live)
        /\ LiveTasks(hnd[h].user) = {}

\* C6, amended: cancel reports the number of searches it cancelled, which
\* is the k searches live at the call less those whose worker finished on
\* its own while the handler was awaiting another task; the user then has
\* no live search task.
C6_ReportsCancelledSearches ==
    \A h \in Handlers : Reported(h) =>
        /\ hnd[h].count =
              Cardinality({t \in hnd[h].before.live : tasks[t].res = "cancelled"})
        /\ LiveTasks(hnd[h].user) = {}

C6_Witness ==
    \E h \in Handlers :
        /\ Reported(h)
        /\ hnd[h].count = 2
        /\ Cardinality(hnd[h].before.live) = 3

\* C7: a worker that has sent the success notification has sent it once
\* and makes no further request: it is sending it or has terminated.
C7_StopsAtFirstSuccess ==
    \A t \in Created : tasks[t].notes["success"] >= 1 =>
        /\ tasks[t].notes["success"] = 1
        /\ tasks[t].pc \in {"succ_note", "done"}

\* C8: while monitoring, a request that fails with a network error sends
\* no server-unavailable notification and does not end the search.
C8_MonitoringSurvivesNetworkError ==
    \A t \in Created : tasks[t].notes["started"] >= 1 =>
        /\ tasks[t].notes["server"] = 0
        /\ tasks[t].why # "mon_neterr"

\* C9: once every request is answered with status 200 and a sale-allowed
\* row, a search that is monitoring sends a success notification, unless it
\* is cancelled.
C9_EventuallyNotified ==
    \A t \in Tasks :
        (env.upstream = "good" /\ Monitoring(tasks[t]) /\ ~tasks[t].cancel)
            ~> (tasks[t].notes["success"] >= 1 \/ tasks[t].cancel)

C9_Witness ==
    \E t \in Created :
        /\ env.upstream = "good"
        /\ tasks[t].pc = "succ_note" /\ tasks[t].notes["success"] = 1
        /\ ~tasks[t].cancel

\* C10: a worker whose initial request failed with a network error calls
\* send_message once, with the server-unavailable text, and terminates: it
\* is awaiting that call or is done, has not sent the confirmation and is
\* not monitoring.
C10_InitialNetworkErrorIsFinal ==
    \A t \in Created : tasks[t].why = "init_neterr" =>
        /\ tasks[t].notes["server"] = 1
        /\ \A k \in NoteKinds \ {"server"} : tasks[t].notes[k] = 0
        /\ tasks[t].pc \in {"last_note", "done"}

C10_Witness ==
    \E t \in Created :
        /\ tasks[t].why = "init_neterr"
        /\ done(tasks[t]) /\ tasks[t].res = "returned"

\* The initial page was rejected by validate_rzd_response.
PageRejected(tk) == tk.why \in {"page_error", "train_not_found"}

\* C11: on an initial page with an error region, or without a departure-time
\* label equal to the requested time, validate_rzd_response calls
\* send_message once (the route error, else the train-not-found text) and
\* the worker terminates: no "search started" confirmation and no monitoring
\* request.  On any other page it sends neither text and the worker goes on
\* to the confirmation.
C11_PageValidation ==
    \A t \in Created :
        /\ tasks[t].pc = "init_fetch" =>
              \A p \in Pages :
                  LET tk == validate_rzd_response(tasks[t], p)
                      sent == [k \in NoteKinds |-> tk.notes[k] - tasks[t].notes[k]]
                  IN  IF p.err \/ ~p.time
                      THEN /\ PageRejected(tk) /\ tk.pc = "last_note"
                           /\ sent["route"] = (IF p.err THEN 1 ELSE 0)
                           /\ sent["notrain"] = (IF p.err THEN 0 ELSE 1)
                           /\ \A k \in NoteKinds \ {"route", "notrain"} : sent[k] = 0
                      ELSE /\ ~PageRejected(tk) /\ tk.pc = "start_note"
                           /\ \A k \in NoteKinds \ {"started"} : sent[k] = 0
        /\ PageRejected(tasks[t]) =>
              /\ tasks[t].notes["route"] + tasks[t].notes["notrain"] = 1
              /\ tasks[t].notes["started"] = 0 /\ tasks[t].notes["success"] = 0
              /\ tasks[t].pc \in {"last_note", "gen_note", "done"}

C11_Witness ==
    \E t \in Created :
        /\ PageRejected(tasks[t])
        /\ done(tasks[t]) /\ tasks[t].res = "returned"
        /\ tasks[t].notes["generic"] = 0

\* The slots of u that hold task t.
SlotsOf(u, t) == {i \in Slots : user_data[u][i] = t}

\* C12: a search whose date/time is in the past is never admitted: its task
\* is stored in no slot and is never one of the user's live searches, so
\* the slots and the live count stay what they were before the submission.
C12_PastSearchNeverAdmitted ==
    \A t \in Created : tasks[t].why = "time_past" =>
        /\ ~tasks[t].admitted
        /\ \A u \in Users : SlotsOf(u, t) = {} /\ t \notin LiveTasks(u)

CancelledAsleep(tk) == tk.pc = "mon_sleep" /\ tk.cancel

AllSlotsTerminated(u) ==
    \A i \in Slots : user_data[u][i] # 0 /\ done(tasks[user_data[u][i]])

C16_ShutdownCancelsEverySearch ==
    env.stopped => \A u \in Users : LiveTasks(u) = {}

\* C17: when the shutdown hook has completed, every user who then has a
\* live search has been sent a shutdown notification.
C17_ShutdownNotifiesActiveUsers ==
    env.stopped => get_active_users \subseteq env.farewell

\* C18: get_active_users() is the set of ids with a live (not done) search.
\* An id with a live admitted search (a slot holding a task that is not
\* done) is in the set; an id in the set has a task that is not done; and
\* an id whose tasks are all done (finished, cancelled, or rejected and
\* ended) is not in it, although the registry still lists those tasks.
C18_ActiveUsersAreLiveUsers ==
    \A u \in Users :
        /\ (\E i \in Slots : user_data[u][i] # 0 /\ ~done(tasks[user_data[u][i]]))
              => u \in get_active_users
        /\ u \in get_active_users =>
              \E k \in 1..Len(active_tasks[u]) : tasks[active_tasks[u][k]].pc # "done"
        /\ (\A t \in Created : tasks[t].pc = "done") => u \notin get_active_users

C18_Witness ==
    \E t, s, r \in Created :
        /\ \A x \in Created : done(tasks[x])
        /\ Rejected(t)
        /\ tasks[s].admitted /\ tasks[s].res = "cancelled"
        /\ tasks[r].admitted /\ tasks[r].res = "returned"
        /\ get_active_users = {}
        /\ Len(active_tasks[1]) = ntasks

\* A connection error or a timeout.
Transient(o) == o.kind = "ClientError" \/ o.kind = "TimeoutError"

\* The last HTTP attempt of the call.
LastAttempt == fetch.attempts[Len(fetch.attempts)]

\* C19: one call of make_get_request makes at most retry_attempts HTTP
\* attempts; every attempt but the last failed with a connection error or
\* a timeout; the call returns the first response it gets; it waits for
\* another attempt only while fewer than retry_attempts were made; and
\* when retry_attempts attempts have failed it raises the failure of the
\* last one.
C19_AtMostRetryAttempts ==
    /\ Len(fetch.attempts) <= retry_attempts
    /\ \A k \in 1..(Len(fetch.attempts) - 1) : Transient(fetch.attempts[k])
    /\ fetch.pc = "wait" =>
          Transient(LastAttempt) /\ Len(fetch.attempts) < retry_attempts
    /\ fetch.pc = "returned" =>
          LastAttempt.kind = "resp" /\ fetch.out = LastAttempt
    /\ fetch.pc = "raised" =>
          /\ LastAttempt.kind # "resp" /\ fetch.out = LastAttempt
          /\ Transient(LastAttempt) => Len(fetch.attempts) = retry_attempts
    /\ fetch.pc = "attempt" /\ fetch.attempts # <<>> => Transient(LastAttempt)

C19_Witness ==
    /\ fetch.pc = "raised"
    /\ Len(fetch.attempts) = retry_attempts
    /\ fetch.attempts[1].kind = "ClientError"
    /\ fetch.out.kind = "TimeoutError"

\* C20: an attempt that gets a response, whatever its status, or that
\* fails with something other than a connection error or a timeout, is the
\* last attempt of the call: the response is returned with its status, the
\* failure is raised, and no attempt follows.
C20_OnlyTransientFailuresRetried ==
    \A k \in 1..Len(fetch.attempts) :
        LET o == fetch.attempts[k]
        IN  ~Transient(o) =>
              /\ k = Len(fetch.attempts)
              /\ fetch.out = o
              /\ fetch.pc = (IF o.kind = "resp" THEN "returned" ELSE "raised")
              /\ o.kind = "resp" => fetch.out.status = o.status

C20_Witness ==
    /\ fetch.pc = "returned"
    /\ Len(fetch.attempts) = 1
    /\ fetch.out.status = 500

\* The classification of a page as the claim C21 gives it.
Classification(p) ==
    IF p.err THEN "RoutePageError"
    ELSE IF ~p.time THEN "TrainNotFound"
    ELSE IF lower(p.allowed) = "true" THEN "Available"
    ELSE "Unavailable"

\* A response with status 200 and page p.
Fetched(p) == [kind |-> "resp", status |-> 200, page |-> p]

\* C21: in the initial check and in monitoring alike, what the worker does
\* with a fetched page follows the classification: an error region first,
\* then the departure-time label, then the sale-allowed attribute of the
\* matched row.
C21_ClassificationInEveryPhase ==
    \A t \in Created :
        /\ tasks[t].pc = "init_fetch" =>
              \A p \in Pages :
                  LET tk == initial_check(tasks[t], Fetched(p))
                  IN  /\ Classification(p) = "RoutePageError" <=> tk.why = "page_error"
                      /\ Classification(p) = "TrainNotFound" <=> tk.why = "train_not_found"
        /\ tasks[t].pc = "mon_fetch" =>
              \A p \in {q \in Pages : q.time => q.row} :
                  LET tk == monitor_ticket_availability(tasks[t], Fetched(p))
                      c == Classification(p)
                  IN  /\ c = "Available" <=>
                            tk.notes["success"] = tasks[t].notes["success"] + 1
                      /\ c = "Unavailable" <=> tk.notes = tasks[t].notes
                      /\ c = "TrainNotFound" <=> tk.why = "mon_wrong"

\* C22: a send_message call that raises is not fatal to the worker and
\* does not change what it does next: no search task ends with an
\* unhandled exception, and the worker resumes after a failed call as it
\* resumes after one that returned.
C22_NotifierFailureNotFatal ==
    [][\A t \in Tasks :
          /\ tasks'[t].res # "raised"
          /\ tasks[t].pc \in NotePcs /\ ~tasks'[t].cancel /\ tasks'[t] # tasks[t] =>
                tasks'[t] = after_send(tasks[t])
      ]_vars

\* The handler h starts sending the limit message in this step.
SendsLimit(h) == hnd'[h].reply = "limit" /\ hnd[h].reply # "limit"

\* C23: enter_ticket_data sends the limit message once for a rejected
\* submission and never for an admitted one.  The handler of a rejected
\* submission does nothing but wait for the cancelled task, send the limit
\* message and return; the handler of an admitted one returns with no
\* reply; and the limit message is sent by no other path.
C23_LimitMessageOnlyOnRejection ==
    [][\A h \in Handlers :
          /\ SendsLimit(h) =>
                /\ hnd[h].kind = "enter" /\ hnd[h].pc = "await_task"
                /\ Rejected(hnd[h].task) /\ done(tasks[hnd[h].task])
                /\ hnd'[h].pc = "reply"
          /\ hnd[h].kind = "enter" /\ hnd[h].pc = "await_task" /\ hnd'[h] # hnd[h] =>
                SendsLimit(h)
          /\ hnd[h].reply = "limit" /\ hnd'[h] # hnd[h] => hnd'[h] = Idle
          /\ (\E u \in Users : Submitted(u)) /\ hnd'[h] # hnd[h] =>
                IF tasks'[ntasks'].admitted
                THEN hnd'[h] = Idle
                ELSE hnd'[h].kind = "enter" /\ hnd'[h].pc = "await_task"
                     /\ hnd'[h].reply = "none" /\ hnd'[h].task = ntasks'
      ]_vars

C23_Witness ==
    \E h \in Handlers, t \in Created :
        /\ ReturnedFalse(h) /\ hnd[h].task = t
        /\ Rejected(t) /\ tasks[t].res = "cancelled"
        /\ \E s \in Created : tasks[s].admitted /\ ~done(tasks[s])

\* C24: enter_ticket_data called with a text of n tokens submits a search
\* exactly when n = 4, and then sends no input-error reply; for another
\* count of a non-empty text it sends the input-error reply once, creates
\* no task and changes no slot; for an empty text it does nothing.
C24_FourTokensOrInputError ==
    [][\A h \in Handlers :
          /\ \A u \in Users, n \in TokenCounts : enter_ticket_data(h, u, n) =>
                IF n = 4
                THEN /\ Submitted(u)
                     /\ hnd'[h].reply # "invalid"
                ELSE /\ tasks' = tasks /\ ntasks' = ntasks
                     /\ active_tasks' = active_tasks /\ user_data' = user_data
                     /\ IF n = 0
                        THEN hnd' = hnd
                        ELSE /\ hnd'[h].kind = "enter" /\ hnd'[h].pc = "reply"
                             /\ hnd'[h].reply = "invalid"
                             /\ \A g \in Handlers \ {h} : hnd'[g] = hnd[g]
          /\ hnd[h].reply = "invalid" /\ hnd'[h] # hnd[h] =>
                hnd'[h] = Idle /\ tasks' = tasks /\ user_data' = user_data
      ]_vars

C24_Witness ==
    \E h \in Handlers :
        /\ hnd[h].kind = "enter" /\ hnd[h].pc = "reply" /\ hnd[h].reply = "invalid"
        /\ LiveCount(hnd[h].user) = 2
        /\ ntasks = 2

\* The texts that equal the cancel keyword once stripped and lower-cased.
KeywordTexts == {"otmena", "Otmena", " OTMENA "}

\* C25: cancel called with a text that is not the keyword (stripped,
\* lower-cased) sends no reply, cancels no task and changes no slot; called
\* with the keyword and non-empty user data it runs its loop and replies
\* once with the cancelled count, then returns.
C25_CancelOnlyOnKeyword ==
    [][\A h \in Handlers :
          /\ \A u \in Users, text \in CancelTexts : cancel(h, u, text) =>
                IF text \notin KeywordTexts
                THEN hnd' = hnd /\ tasks' = tasks /\ user_data' = user_data
                ELSE /\ hnd'[h].kind = "cancel" /\ hnd'[h].user = u
                     /\ IF user_data[u] = NoSlots
                        THEN hnd'[h].pc = "reply" /\ hnd'[h].reply = "noactive"
                        ELSE \/ hnd'[h].pc = "await_task" /\ hnd'[h].reply = "none"
                             \/ hnd'[h].pc = "reply" /\ hnd'[h].reply = "cancelled"
          /\ hnd[h].kind = "cancel" /\ hnd[h].pc = "await_task" /\ hnd'[h] # hnd[h] =>
                \/ hnd'[h].pc = "await_task" /\ hnd'[h].reply = "none"
                \/ hnd'[h].pc = "reply" /\ hnd'[h].reply = "cancelled"
          /\ hnd[h].kind = "cancel" /\ hnd[h].pc = "reply" /\ hnd'[h] # hnd[h] =>
                hnd'[h] = Idle /\ tasks' = tasks /\ user_data' = user_data
      ]_vars

C25_Witness ==
    \E h \in Handlers :
        /\ Reported(h) /\ hnd[h].count = 1
        /\ \E t \in Created : tasks[t].admitted /\ tasks[t].res = "returned"

\* C26: create_search_task stores an admitted task in the lowest-numbered
\* slot whose key is missing or whose task is done, and changes no other
\* slot; a slot holding a live task is never overwritten by a submission.
C26_LowestFreeSlot ==
    [][\A u \in Users : Submitted(u) =>
          /\ tasks'[ntasks'].admitted =>
                \E i \in Slots :
                    /\ user_data[u][i] = 0 \/ tasks[user_data[u][i]].pc = "done"
                    /\ \A j \in 1..(i - 1) :
                          user_data[u][j] # 0 /\ tasks[user_data[u][j]].pc # "done"
                    /\ user_data'[u][i] = ntasks'
                    /\ \A j \in Slots \ {i} : user_data'[u][j] = user_data[u][j]
          /\ \A j \in Slots :
                user_data[u][j] # 0 /\ tasks[user_data[u][j]].pc # "done" =>
                    user_data'[u][j] = user_data[u][j]
      ]_vars

\* A search was admitted into slot 2: slot 1 holds a live search and slot 3
\* a finished one.
C26_Witness ==
    \E u \in Users :
        LET ud == user_data[u]
        IN  /\ ud[1] # 0 /\ ud[2] # 0 /\ ud[3] # 0
            /\ ~done(tasks[ud[1]]) /\ done(tasks[ud[3]])
            /\ ud[2] = ntasks /\ tasks[ud[2]].pc = "new" /\ tasks[ud[2]].admitted
            /\ ud[2] > ud[3]

\* C27: when cancel has run its loop and replies, the user has no slot
\* left, the slots of workers that had already finished included; the
\* reported count covers only tasks that ended cancelled, none that had
\* finished before.
C27_CancelClearsEverySlot ==
    \A h \in Handlers : Reported(h) =>
        /\ user_data[hnd[h].user] = NoSlots
        /\ hnd[h].count <= Cardinality(hnd[h].before.live)
        /\ hnd[h].count <=
              Cardinality({t \in Created : tasks[t].admitted /\ tasks[t].res = "cancelled"})

C27_Witness ==
    \E h \in Handlers, t, s \in Created :
        /\ Reported(h) /\ hnd[h].count = 1
        /\ hnd[h].before.live = {s} /\ tasks[s].res = "cancelled"
        /\ t < s /\ tasks[t].admitted /\ tasks[t].res = "returned"
        /\ ntasks = 2

\* The request is for a moment that is not in the past: a later day, or
\* today at the current time or later.
NotInThePast(tv) ==
    tv.date > current_date \/ (tv.date = current_date /\ tv.time >= current_time)

NotesSent(tk) ==
    tk.notes["format"] + tk.notes["past"] + tk.notes["route"] + tk.notes["notrain"]
        + tk.notes["started"] + tk.notes["success"] + tk.notes["wrong"]
        + tk.notes["server"] + tk.notes["generic"]

\* C28: a worker whose date/time validation failed sends one notification
\* and terminates: it is sending that notification or is done, and has
\* made no request.
C28_TimeFailureOneNotification ==
    \A t \in Created : tasks[t].why \in {"time_format", "time_past"} =>
        /\ NotesSent(tasks[t]) = 1
        /\ tasks[t].notes["format"] + tasks[t].notes["past"] = 1
        /\ tasks[t].pc \in {"last_note", "done"}

\* C30: a worker that, while monitoring, got a page without the requested
\* departure time or without its schedule row sends the wrong-parameters
\* notification once and terminates with no further request.
C30_WrongParametersIsFinal ==
    \A t \in Created : tasks[t].notes["wrong"] >= 1 =>
        /\ tasks[t].notes["wrong"] = 1
        /\ tasks[t].why = "mon_wrong"
        /\ tasks[t].pc \in {"last_note", "done"}

\* A response a monitoring worker is silent about: a status other than
\* 200, or status 200 with the matching row not marked sale-allowed.
Quiet(r) ==
    /\ r.kind = "resp"
    /\ \/ r.status # 200
       \/ r.page.time /\ r.page.row /\ lower(r.page.allowed) # "true"

\* C31: in monitoring, a request answered with a status other than 200, or
\* with a page whose row is not on sale, sends nothing and does not end the
\* worker: the worker sleeps, and when the sleep is over it makes the next
\* request (unless it is cancelled).
C31_QuietFetchSleepsAndRetries ==
    /\ [](\A t \in Tasks : tasks[t].pc = "mon_fetch" =>
              \A r \in {q \in Responses : Quiet(q)} :
                  monitor_ticket_availability(tasks[t], r)
                      = [tasks[t] EXCEPT !.pc = "mon_sleep"])
    /\ [][\A t \in Tasks :
              /\ tasks[t].pc = "mon_sleep" /\ ~tasks[t].cancel
              /\ tasks'[t] # tasks[t] /\ ~tasks'[t].cancel
              => tasks'[t] = [tasks[t] EXCEPT !.pc = "mon_fetch"]
          ]_vars
    /\ \A t \in Tasks :
          tasks[t].pc = "mon_sleep" ~> (tasks[t].pc = "mon_fetch" \/ tasks[t].cancel)

C31_Witness ==
    \E t \in Created :
        /\ tasks[t].pc = "mon_sleep" /\ ~tasks[t].cancel
        /\ tasks[t].notes["started"] = 1 /\ NotesSent(tasks[t]) = 1

\* C32: in monitoring, an unexpected exception raised while a fetched page
\* is handled is logged and nothing more: the worker sends nothing, does not
\* terminate, and is about to make a request again.
C32_MonitoringExceptionIsTransient ==
    /\ [](\A t \in Created : tasks[t].pc = "mon_fetch" =>
              \A r \in {q \in Responses : q.kind = "exc"} :
                  LET tk == monitor_ticket_availability(tasks[t], r)
                  IN  /\ tk.pc = "mon_fetch" /\ tk.res = "none"
                      /\ tk.notes = tasks[t].notes
                      /\ tk.why = "mon_error")
    /\ [][\A t \in Tasks :
              /\ tasks[t].pc = "mon_fetch"
              /\ tasks[t].why # "mon_error" /\ tasks'[t].why = "mon_error"
              => tasks'[t] = [tasks[t] EXCEPT !.why = "mon_error"]
          ]_vars

C32_Witness ==
    \E t \in Created :
        /\ tasks[t].pc = "mon_fetch" /\ tasks[t].why = "mon_error"
        /\ tasks[t].notes["started"] = 1 /\ NotesSent(tasks[t]) = 1

\* C34: a monitoring worker sleeps between any two requests: it comes to
\* a request from the confirmation it sent when monitoring began, or from
\* a sleep, on every path through the loop.
C34_SleepBetweenFetches ==
    [][\A t \in Tasks :
          /\ tasks'[t].pc = "mon_fetch" /\ tasks'[t] # tasks[t]
          /\ tasks'[t].cancel = tasks[t].cancel
          => tasks[t].pc \in {"mon_sleep", "start_note"}
      ]_vars

\* The waits, in seconds, that a jitter around the waits of the model would
\* give.
RetryDelays == 0..4

\* The fetcher can wait d seconds after the attempt it is making.
CanWait(d) == ENABLED (FetchAttempt /\ fetch'.pc = "wait" /\ fetch'.delay = d)

\* C33: the wait before the next attempt does not decrease from one attempt
\* to the next, and it is randomized: after a failed attempt that is retried
\* the fetcher can wait either of two different times.
C33_BackoffWithJitter ==
    /\ \A k \in 1..(retry_attempts - 1) : wait_exponential(k) <= wait_exponential(k + 1)
    /\ fetch.pc = "attempt" /\ Len(fetch.attempts) + 1 < retry_attempts =>
          \E d1, d2 \in RetryDelays : d1 # d2 /\ CanWait(d1) /\ CanWait(d2)

CancelAll(h) == hnd[h].kind = "cancel_all"

C37_RegistryOnlyGrows ==
    /\ [](/\ UNION {TasksOf(u) : u \in Users} = 1..ntasks
          /\ \A u \in Users : \A j, k \in DOMAIN active_tasks[u] :
                j < k => active_tasks[u][j] < active_tasks[u][k])
    /\ [][\A u \in Users :
              /\ Len(active_tasks'[u]) >= Len(active_tasks[u])
              /\ \A k \in DOMAIN active_tasks[u] : active_tasks'[u][k] = active_tasks[u][k]
          ]_vars

C37_Witness ==
    \E u \in Users : \E a, b, c \in TasksOf(u) :
        /\ tasks[a].res = "returned"
        /\ tasks[b].res = "cancelled" /\ tasks[b].admitted
        /\ tasks[c].res = "cancelled" /\ ~tasks[c].admitted
        /\ \A h \in Handlers : ~InFlight(h)

\* C38: the background poller never stops polling: whatever is raised in a
\* round is caught and logged, and the poller task does not end.
C38_PollerNeverStops == poller.pc # "done"

====
